---- MODULE Spec2Model ----
(***************************************************************************)
(* The SSE/POST bridge of coingecko-price-server-py.                        *)
(*                                                                         *)
(* src/app/main.py: a FastAPI app with a process-wide active_transport     *)
(* slot, a GET /sse/ handler that creates one SseServerTransport per       *)
(* connection, a POST /messages/ handler that delegates to the transport   *)
(* in the slot, and the two MCP tool handlers list_tools and call_tool.    *)
(* src/app/sse.py: a Starlette app whose connections share one transport,  *)
(* with POST /messages/ mounted on that transport (SseSpec).               *)
(*                                                                         *)
(* SseServerTransport and MCPServer.run come from the MCP SDK, which is    *)
(* not part of the sources; what they do (session registration, the first  *)
(* event, the session lookup of a POST, the dispatch loop, the stream      *)
(* writer) is modelled from the specification's sections 4.1 to 4.4.       *)
(***************************************************************************)
EXTENDS Integers, Sequences, FiniteSets, TLC

\* ------------------------------------------------------------------ bounds
MaxStreams == 2
MaxPosts == 2

\* --------------------------------------------------------------- constants
NoTransport == 0
BogusSid == MaxStreams + 1

Streams == 1..MaxStreams
SessionIds == Streams \cup {BogusSid}

VARIABLES
    app,              \* which application runs: "main" (main.py) or "sse" (sse.py)
    active_transport, \* main.py:92, NoTransport or the transport of a stream
    nextStream,       \* number of GET /sse/ requests handled so far
    phase,            \* per stream: position of handle_sse_connection/event_stream
    writers,          \* per transport: the session ids it has registered
    inbound,          \* per session: requests enqueued by POST, not yet dispatched
    inflight,         \* per session: requests whose handler is running
    events,           \* per stream: events written to the open stream so far
    postSeq,          \* number of POST /messages/ requests handled so far
    lastPost          \* the most recent POST and its HTTP answer

vars == <<app, active_transport, nextStream, phase, writers, inbound, inflight,
          events, postSeq, lastPost>>

\* ------------------------------------------------------------ tool table
StrV(s) == [type |-> "str", val |-> s]
IntV(s) == [type |-> "int", val |-> s]

\* CoinGeckoPriceInput.model_json_schema(): one required string field.
CoinGeckoPriceInput ==
    [properties |-> {"token_id"}, required |-> {"token_id"}, type |-> "object"]

coingecko_tool_definition ==
    [name |-> "get_coingecko_price",
     description |-> "Get the current price of a cryptocurrency from CoinGecko using its ID.",
     inputSchema |-> CoinGeckoPriceInput]

\* A listing that leaves out the input schema.
list_toolsNoSchema == <<[name |-> "get_coingecko_price"]>>

\* list_tools(): the one registered definition.
list_tools == <<coingecko_tool_definition>>

\* ------------------------------------------------------------ tool inputs
\* The arguments dict of a callTool request: token_id a usable string, an
\* empty string, a non-string, or absent.
NoArgs == [other |-> StrV("x")]
ArgSets ==
    { [token_id |-> StrV("bitcoin")],
      [token_id |-> StrV("")],
      [token_id |-> IntV("42")],
      NoArgs }

\* What the try block of the lookup meets: a price; a reply without the
\* token's price; requests.get failing (no connection, timeout); an error
\* status (raise_for_status); a body that is not JSON (response.json()
\* raises requests' JSONDecodeError, a RequestException); any other
\* exception (a reply of an unexpected shape).
Upstreams == {"price", "nodata", "neterror", "httperror", "badjson", "crash"}

\* A validation that only looks for the field, whatever its type.
ValidInputPresent(arguments) == "token_id" \in DOMAIN arguments

\* CoinGeckoPriceInput(**arguments): token_id is required and must be a str.
ValidInput(arguments) ==
    /\ "token_id" \in DOMAIN arguments
    /\ arguments.token_id.type = "str"

Returned(result) == [kind |-> "return", exc |-> "none", value |-> result]
Raised(exc, msg) == [kind |-> "raise", exc |-> exc, value |-> msg]

\* get_coingecko_price_logic(token_id), token_id a value, up the upstream's
\* behaviour; the text of a result is abstracted to the token it names. The
\* ValueError of the else branch is raised inside the try and is caught by
\* "except Exception", which re-raises it as a RuntimeError. Every
\* RequestException of the try block, whichever statement raised it, is
\* re-raised as a ConnectionError.
get_coingecko_price_logic(token_id, up) ==
    IF token_id.type # "str" \/ token_id.val = ""
    THEN Raised("ValueError", "Invalid or missing token_id parameter.")
    ELSE CASE up = "price" ->
                 Returned([content |-> <<[type |-> "text", text |-> token_id.val]>>])
           [] up \in {"neterror", "httperror"} ->
                 Raised("ConnectionError", "CoinGecko API request failed")
           [] up = "badjson" ->
                 Raised("ConnectionError",
                        "CoinGecko API request failed: body is not JSON")
           [] up = "nodata" ->
                 Raised("RuntimeError",
                        "An unexpected error occurred: Could not find price data")
           [] OTHER -> Raised("RuntimeError", "An unexpected error occurred")

\* Whether the outbound request is made: only past the token_id check.
OutboundCall(name, arguments) ==
    /\ name = "get_coingecko_price"
    /\ ValidInput(arguments)
    /\ arguments.token_id.val # ""

\* A call_tool that runs the lookup whatever tool is named.
call_toolAnyName(name, arguments, up) ==
    IF ValidInput(arguments)
    THEN get_coingecko_price_logic(arguments.token_id, up)
    ELSE Raised("ValidationError", "token_id")

\* call_tool(name, arguments): every exception is logged and re-raised.
call_tool(name, arguments, up) ==
    IF name = "get_coingecko_price"
    THEN IF ValidInput(arguments)
         THEN get_coingecko_price_logic(arguments.token_id, up)
         ELSE Raised("ValidationError", "token_id")
    ELSE Raised("ValueError", "Unknown tool")

\* ---------------------------------------------------------------- messages
ListRequest == [method |-> "tools/list", name |-> "", arguments |-> NoArgs]
CallRequests ==
    { [method |-> "tools/call", name |-> "get_coingecko_price", arguments |-> a] :
        a \in ArgSets }
    \cup { [method |-> "tools/call", name |-> "get_weather",
            arguments |-> [token_id |-> StrV("bitcoin")]] }
Requests == {ListRequest} \cup CallRequests

\* A POST body: a well-formed request, or bytes that do not decode to one.
Malformed == [method |-> "malformed", name |-> "", arguments |-> NoArgs]
Bodies == Requests \cup {Malformed}

\* The bodies POSTed to the bridge: a listing, a call that can succeed or fail
\* upstream, a call of an unknown tool, and a malformed body. (The calls
\* whose arguments are rejected are those of ToolSpec.)
PostedBodies ==
    { b \in Bodies :
        b.method = "tools/call" /\ b.name = "get_coingecko_price"
            => OutboundCall(b.name, b.arguments) }

\* A request as it travels through a session: the body plus its correlation id.
Tagged(id, body) == [id |-> id, req |-> body]

\* The coarse code of a failed invocation (specification, section 4.4).
ErrorCode(raised) ==
    CASE raised.exc = "ValueError" /\ raised.value = "Unknown tool" -> "CapabilityNotFound"
      [] raised.exc = "ValidationError" -> "InvalidParams"
      [] raised.exc = "ConnectionError" -> "UpstreamUnavailable"
      [] OTHER -> "InternalError"

Response(id, result) ==
    [type |-> "message", id |-> id, kind |-> "response", code |-> "none", body |-> result]
ErrorNotification(id, raised) ==
    [type |-> "message", id |-> id, kind |-> "error", code |-> ErrorCode(raised),
     body |-> raised.value]
EndpointEvent(sid) ==
    [type |-> "endpoint", id |-> sid, kind |-> "endpoint", code |-> "none", body |-> sid]

\* The message a handler's outcome is turned into (specification, section
\* 4.4): a result becomes a Response, a raised exception an ErrorNotification,
\* both with the request's id.
Reply(m, up) ==
    IF m.req.method = "tools/list"
    THEN Response(m.id, [tools |-> list_tools])
    ELSE LET out == call_tool(m.req.name, m.req.arguments, up)
         IN  IF out.kind = "return"
             THEN Response(m.id, out.value)
             ELSE ErrorNotification(m.id, out)

\* ------------------------------------------------------------------- state
NoPost ==
    [sid |-> NoTransport, id |-> 0, status |-> 0,
     target |-> "none", wellFormed |-> FALSE, delegated |-> FALSE]

Started(a) ==
    /\ app = a
    /\ active_transport = NoTransport
    /\ nextStream = 0
    /\ phase = [k \in Streams |-> "new"]
    /\ writers = [t \in Streams |-> {}]
    /\ inbound = [k \in Streams |-> <<>>]
    /\ inflight = [k \in Streams |-> {}]
    /\ events = [k \in Streams |-> <<>>]
    /\ postSeq = 0
    /\ lastPost = NoPost

\* main.py after import: no stream, the slot empty.
Init == Started("main")

\* The Starlette application of create_sse_app after construction.
SseInit == Started("sse")

\* ------------------------------------------------------------ GET /sse/
\* create_sse_app makes one transport for all connections (sse.py:24).
SharedTransport == MaxStreams

\* transport = SseServerTransport("/messages/"): main.py makes one transport
\* per connection, sse.py uses the one of create_sse_app.
TransportOf(k) == IF app = "main" THEN k ELSE SharedTransport

\* A handler that stores the new transport only in an empty slot.
handle_sse_connectionKeepsSlot ==
    /\ nextStream < MaxStreams
    /\ nextStream' = nextStream + 1
    /\ active_transport' = IF active_transport = NoTransport
                           THEN TransportOf(nextStream + 1)
                           ELSE active_transport
    /\ phase' = [phase EXCEPT ![nextStream + 1] = "created"]
    /\ UNCHANGED <<app, writers, inbound, inflight, events, postSeq,
                   lastPost>>

\* handle_sse_connection up to its return: a new transport is created and
\* stored in the slot; event_stream() has not started yet.
handle_sse_connection ==
    /\ nextStream < MaxStreams
    /\ nextStream' = nextStream + 1
    /\ active_transport' = TransportOf(nextStream + 1)
    /\ phase' = [phase EXCEPT ![nextStream + 1] = "created"]
    /\ UNCHANGED <<app, writers, inbound, inflight, events, postSeq,
                   lastPost>>

\* A transport that announces no session id.
NoFirstEvent(sid) == <<>>

\* transport.connect_sse (specification, sections 4.1 and 6): the session is
\* registered under a fresh id and the first event carries that id.
FirstEvents(sid) == <<EndpointEvent(sid)>>

\* event_stream entering "async with transport.connect_sse(request)".
connect_sse(k) ==
    /\ phase[k] = "created"
    /\ phase' = [phase EXCEPT ![k] = "open"]
    /\ writers' = [writers EXCEPT ![TransportOf(k)] = @ \cup {k}]
    /\ events' = [events EXCEPT ![k] = FirstEvents(k)]
    /\ UNCHANGED <<app, active_transport, nextStream, inbound, inflight, postSeq, lastPost>>

\* sse.py, handle_sse_connection: the handler itself enters
\* "async with transport.connect_sse(request)"; there is no slot.
sse_handle_sse_connection ==
    /\ nextStream < MaxStreams
    /\ nextStream' = nextStream + 1
    /\ phase' = [phase EXCEPT ![nextStream + 1] = "open"]
    /\ writers' = [writers EXCEPT ![SharedTransport] = @ \cup {nextStream + 1}]
    /\ events' = [events EXCEPT ![nextStream + 1] = FirstEvents(nextStream + 1)]
    /\ UNCHANGED <<app, active_transport, inbound, inflight, postSeq, lastPost>>

\* A cleanup that empties the slot whatever it holds.
SlotCleared(slot, t) == NoTransport

\* A cleanup that also empties a slot that holds a newer stream's transport.
SlotClearedByOlder(slot, t) == IF slot >= t THEN NoTransport ELSE slot

\* The finally block's slot update: cleared only if it still holds this
\* stream's transport.
SlotAfterCleanup(slot, t) == IF slot = t THEN NoTransport ELSE slot

\* Where a stream ends: "closed" once its session existed, "failed" when
\* event_stream ended before connect_sse had registered one.
Ended(ph) == IF ph = "created" THEN "failed" ELSE "closed"

\* Leaving event_stream: the finally block, and the session's teardown as the
\* "async with" exits (specification, section 4.1, remove).
Cleanup(k) ==
    /\ phase' = [phase EXCEPT ![k] = Ended(@)]
    /\ active_transport' = SlotAfterCleanup(active_transport, TransportOf(k))
    /\ writers' = [writers EXCEPT ![TransportOf(k)] = @ \ {k}]
    /\ inbound' = [inbound EXCEPT ![k] = <<>>]
    /\ events' = [events EXCEPT ![k] = <<>>]
    /\ UNCHANGED <<app, nextStream, inflight, postSeq, lastPost>>

\* The client closes the connection; the server has not noticed yet.
ClientDisconnect(k) ==
    /\ phase[k] = "open"
    /\ phase' = [phase EXCEPT ![k] = "disconnected"]
    /\ UNCHANGED <<app, active_transport, nextStream, writers, inbound, inflight,
                   events, postSeq, lastPost>>

\* except asyncio.CancelledError, then finally (sse.py: the cancellation
\* leaves the "async with").
StreamCancelled(k) ==
    /\ phase[k] = "disconnected"
    /\ Cleanup(k)

\* except Exception (connect_sse or the run loop raised), then finally
\* (sse.py: the exception leaves the "async with").
StreamError(k) ==
    /\ phase[k] \in {"created", "open"}
    /\ Cleanup(k)

\* mcp_server.run returned ("run loop finished"), then finally.
RunFinished(k) ==
    /\ phase[k] = "open"
    /\ inflight[k] = {}
    /\ Cleanup(k)

\* ------------------------------------------------- mcp_server.run (dispatch)
\* A loop that starts a handler for every queued request at once.
CanStartAlways(running) == TRUE

\* The dispatch loop takes the next request only when no handler of the
\* session is running (specification, section 4.4, strict sequential dispatch).
CanStart(running) == running = {}

\* A loop that lets a handler's failure escape.
LoopEndsOnError(reply) == reply.kind # "error"

\* A handler's failure is turned into an ErrorNotification and never ends
\* the loop (specification, section 4.4).
LoopSurvives(reply) == TRUE

\* The upstream outcomes that matter to a request: only a request that gets
\* as far as the outbound call sees the upstream at all.
UpstreamsOf(m) ==
    IF m.req.method = "tools/call" /\ OutboundCall(m.req.name, m.req.arguments)
    THEN Upstreams
    ELSE {"price"}

\* The loop pops the oldest request of the inbound queue and starts its handler.
DispatchStart(k) ==
    /\ phase[k] \in {"open", "disconnected"}
    /\ inbound[k] # <<>>
    /\ CanStart(inflight[k])
    /\ inflight' = [inflight EXCEPT ![k] = @ \cup {Head(inbound[k])}]
    /\ inbound' = [inbound EXCEPT ![k] = Tail(@)]
    /\ UNCHANGED <<app, active_transport, nextStream, phase, writers, events, postSeq, lastPost>>

\* What the stream shows once a reply is produced (specification, section
\* 4.2): the reply is written as one event after those already written; with
\* the client gone the write fails and the reply is dropped.
Emit(written, reply, ph) == IF ph = "open" THEN Append(written, reply) ELSE written

\* A loop whose handlers write their reply whatever has become of the
\* session.
DispatchFinishAfterClose(k) ==
    \E m \in inflight[k] : \E up \in UpstreamsOf(m) :
        /\ inflight' = [inflight EXCEPT ![k] = @ \ {m}]
        /\ events' = [events EXCEPT ![k] = Append(@, Reply(m, up))]
        /\ UNCHANGED <<app, active_transport, nextStream, phase, writers,
                       inbound, postSeq, lastPost>>

\* A handler finishes and its reply is written to the stream; on a session
\* that is closed by then the result is discarded. A failure that escaped
\* the loop would leave event_stream through "except Exception" and finally.
DispatchFinish(k) ==
    \E m \in inflight[k] : \E up \in UpstreamsOf(m) :
        LET reply == Reply(m, up)
        IN  /\ inflight' = [inflight EXCEPT ![k] = @ \ {m}]
            /\ IF phase[k] = "closed"
               THEN UNCHANGED <<app, active_transport, nextStream, phase, writers,
                                inbound, events, postSeq, lastPost>>
               ELSE IF LoopSurvives(reply)
               THEN /\ events' = [events EXCEPT ![k] = Emit(@, reply, phase[k])]
                    /\ UNCHANGED <<app, active_transport, nextStream, phase,
                                   writers, inbound, postSeq, lastPost>>
               ELSE /\ phase' = [phase EXCEPT ![k] = "closed"]
                    /\ active_transport' =
                           SlotAfterCleanup(active_transport, TransportOf(k))
                    /\ writers' = [writers EXCEPT ![TransportOf(k)] = @ \ {k}]
                    /\ inbound' = [inbound EXCEPT ![k] = <<>>]
                    /\ events' = [events EXCEPT ![k] = <<>>]
                    /\ UNCHANGED <<app, nextStream, postSeq, lastPost>>

\* -------------------------------------------------------- POST /messages/
\* A handler that takes the else branch whatever the slot holds.
DelegatesNever(slot) == FALSE

\* "if active_transport and hasattr(active_transport, 'handle_post_message')".
Delegates(slot) == slot # NoTransport

\* transport.handle_post_message (specification, section 4.3): the session id
\* is resolved in the transport's own registry, the body must decode to a
\* request, and only then is the message enqueued and acknowledged.
TransportHandlePost(t, sid, body) ==
    IF sid \notin writers[t]
    THEN [status |-> 404, content |-> "SessionNotFound", enqueue |-> FALSE]
    ELSE IF body = Malformed
    THEN [status |-> 400, content |-> "MalformedMessage", enqueue |-> FALSE]
    ELSE [status |-> 202, content |-> "Accepted", enqueue |-> TRUE]

\* The HTTP answer of handle_post_message. r is what the transport did,
\* raises whether the delegation raised, asObject whether the transport
\* returned a response object (a rejection always is one) or None.
PostAnswer(slot, r, raises, asObject) ==
    IF ~Delegates(slot)
    THEN [status |-> 400, content |-> "No active SSE connection or transport cannot handle POST."]
    ELSE IF raises
    THEN [status |-> 500, content |-> "Error processing message"]
    ELSE IF asObject \/ r.status # 202
    THEN [status |-> r.status, content |-> r.content]
    ELSE [status |-> 202, content |-> "Request processed via SSE"]

\* The session ids a POST can carry: one issued to some stream so far, or
\* one that was never issued.
PostTargets == {sid \in SessionIds : sid <= nextStream \/ sid = BogusSid}

TargetPhase(sid) == IF sid \in Streams THEN phase[sid] ELSE "unknown"

\* What every POST records, whatever its outcome: the session id and the
\* state of the session it names, whether the body was a well-formed request,
\* whether the handler called a transport (to), and the HTTP status.
PostRecord(sid, body, answer, to) ==
    /\ postSeq' = postSeq + 1
    /\ lastPost' = [sid |-> sid, id |-> postSeq + 1, status |-> answer.status,
                    target |-> TargetPhase(sid),
                    wellFormed |-> body # Malformed,
                    delegated |-> to # NoTransport]

\* handle_post_message, else branch: the slot is empty, HTTP 400.
PostNoTransport(sid, body) ==
    /\ postSeq < MaxPosts
    /\ ~Delegates(active_transport)
    /\ PostRecord(sid, body,
                  PostAnswer(active_transport, NoPost, FALSE, FALSE),
                  NoTransport)
    /\ UNCHANGED <<app, active_transport, nextStream, phase, writers, inbound,
                   inflight, events>>

\* handle_post_message, except branch: the delegation raised, HTTP 500.
PostDelegationFails(sid, body) ==
    /\ postSeq < MaxPosts
    /\ Delegates(active_transport)
    /\ PostRecord(sid, body,
                  PostAnswer(active_transport, NoPost, TRUE, FALSE),
                  active_transport)
    /\ UNCHANGED <<app, active_transport, nextStream, phase, writers, inbound,
                   inflight, events>>

\* A handler that answers only once the request has been handled: the reply
\* is on the stream when the POST returns.
PostDelegatedAwaitsResult(sid, body, asObject) ==
    /\ postSeq < MaxPosts
    /\ Delegates(active_transport)
    /\ LET r == TransportHandlePost(active_transport, sid, body)
       IN  /\ PostRecord(sid, body,
                         PostAnswer(active_transport, r, FALSE, asObject),
                         active_transport)
           /\ IF r.enqueue
              THEN \E up \in UpstreamsOf(Tagged(postSeq + 1, body)) :
                      events' = [events EXCEPT ![sid] =
                          Emit(@, Reply(Tagged(postSeq + 1, body), up), phase[sid])]
              ELSE UNCHANGED events
    /\ UNCHANGED <<app, active_transport, nextStream, phase, writers, inbound,
                   inflight>>

\* handle_post_message, try branch: the transport in the slot handles the
\* request; its response object is returned, or 202 if it returned None.
PostDelegated(sid, body, asObject) ==
    /\ postSeq < MaxPosts
    /\ Delegates(active_transport)
    /\ LET r == TransportHandlePost(active_transport, sid, body)
       IN  /\ PostRecord(sid, body,
                         PostAnswer(active_transport, r, FALSE, asObject),
                         active_transport)
           /\ IF r.enqueue
              THEN inbound' = [inbound EXCEPT ![sid] =
                                  Append(@, Tagged(postSeq + 1, body))]
              ELSE UNCHANGED inbound
    /\ UNCHANGED <<app, active_transport, nextStream, phase, writers, inflight,
                   events>>

\* sse.py: POST /messages/ is mounted on the shared transport's own
\* handle_post_message, whose answer is the HTTP answer.
sse_handle_post_message ==
    /\ postSeq < MaxPosts
    /\ \E sid \in PostTargets, body \in PostedBodies :
          LET r == TransportHandlePost(SharedTransport, sid, body)
          IN  /\ PostRecord(sid, body, r, SharedTransport)
              /\ IF r.enqueue
                 THEN inbound' = [inbound EXCEPT ![sid] =
                                     Append(@, Tagged(postSeq + 1, body))]
                 ELSE UNCHANGED inbound
    /\ UNCHANGED <<app, active_transport, nextStream, phase, writers, inflight,
                   events>>

handle_post_message ==
    \E sid \in PostTargets, body \in PostedBodies :
        \/ PostNoTransport(sid, body)
        \/ PostDelegationFails(sid, body)
        \/ \E asObject \in BOOLEAN : PostDelegated(sid, body, asObject)

\* ------------------------------------------------------------ specification
Next ==
    \/ handle_sse_connection
    \/ \E k \in Streams : connect_sse(k)
    \/ \E k \in Streams : ClientDisconnect(k)
    \/ \E k \in Streams : StreamCancelled(k)
    \/ \E k \in Streams : StreamError(k)
    \/ \E k \in Streams : RunFinished(k)
    \/ handle_post_message
    \/ \E k \in Streams : DispatchStart(k)
    \/ \E k \in Streams : DispatchFinish(k)

\* main.py.
Spec == Init /\ [][Next]_vars

\* sse.py: the streams and the POSTs go through the shared transport; the
\* session's end, the dispatch loop and the writer are the same.
SseNext ==
    \/ sse_handle_sse_connection
    \/ \E k \in Streams : ClientDisconnect(k)
    \/ \E k \in Streams : StreamCancelled(k)
    \/ \E k \in Streams : StreamError(k)
    \/ \E k \in Streams : RunFinished(k)
    \/ sse_handle_post_message
    \/ \E k \in Streams : DispatchStart(k)
    \/ \E k \in Streams : DispatchFinish(k)

SseSpec == SseInit /\ [][SseNext]_vars

\* The event loop runs every task that can run: a queued request is
\* dispatched, a started handler finishes, and a cancellation is delivered.
Fairness ==
    \A k \in Streams :
        /\ WF_vars(DispatchStart(k))
        /\ WF_vars(DispatchFinish(k))
        /\ WF_vars(StreamCancelled(k))

FairSpec == Spec /\ Fairness

\* The tool handlers behind one bridge, under every request a client can
\* send: streams open and stay open, every POST is delegated, and the
\* requests are all of Requests (a tools/call with token_id missing or not
\* a string included).
PostToolRequest ==
    \E sid \in PostTargets, body \in Requests :
        \E asObject \in BOOLEAN : PostDelegated(sid, body, asObject)

ToolNext ==
    \/ handle_sse_connection
    \/ \E k \in Streams : connect_sse(k)
    \/ PostToolRequest
    \/ \E k \in Streams : DispatchStart(k)
    \/ \E k \in Streams : DispatchFinish(k)

ToolSpec == Init /\ [][ToolNext]_vars

TypeOK ==
    /\ app \in {"main", "sse"}
    /\ active_transport \in Streams \cup {NoTransport}
    /\ nextStream \in 0..MaxStreams
    /\ phase \in [Streams -> {"new", "created", "failed", "open", "disconnected",
                             "closed"}]
    /\ writers \in [Streams -> SUBSET Streams]
    /\ postSeq \in 0..MaxPosts
    /\ \A k \in Streams : Len(inbound[k]) <= MaxPosts

\* ------------------------------------------------------------------ claims
PostIds == 1..MaxPosts

IsMessage(e) == e.type = "message"

Answered(k, i) ==
    \E n \in DOMAIN events[k] : IsMessage(events[k][n]) /\ events[k][n].id = i

AnswerCount(k, i) ==
    Cardinality({n \in DOMAIN events[k] :
                    IsMessage(events[k][n]) /\ events[k][n].id = i})

\* Whether a POST addressed to session k would reach session k's queue.
Reachable(k) ==
    IF app = "main"
    THEN Delegates(active_transport) /\ k \in writers[active_transport]
    ELSE k \in writers[SharedTransport]

\* The step is a POST (every POST advances postSeq).
IsPost == postSeq' # postSeq

\* C1: every valid request POSTed to a session whose stream is open is
\* eventually answered on that session's stream by exactly one Response or
\* ErrorNotification with its id, unless the session terminates first.
\* (Stated for the POSTs the handler did not answer with a 500, so that the
\* behaviour found does not rest on a delegation that raised.)
C1_EveryRequestAnswered ==
    /\ \A k \in Streams : \A i \in PostIds :
          (lastPost.id = i /\ lastPost.sid = k /\ lastPost.wellFormed
              /\ lastPost.target = "open" /\ lastPost.status # 500)
            ~> (AnswerCount(k, i) = 1 \/ phase[k] = "closed")
    /\ [](\A k \in Streams : \A i \in PostIds : AnswerCount(k, i) <= 1)

\* C2: sessions of concurrent clients are independent: every session whose
\* stream is open stays reachable by a POST addressed to it, also after
\* another client has opened a stream.
C2_OpenSessionsReachable ==
    \A k \in Streams : phase[k] = "open" => Reachable(k)

\* C3: a POST addressed to an unknown or already-closed session id is
\* answered with a 4xx session-not-found failure, changes no inbound queue
\* and puts no event on any stream.
C3_UnknownSessionRejected ==
    [][(IsPost /\ lastPost'.target \in {"unknown", "created", "failed", "closed"})
          => /\ lastPost'.status \in {400, 404}
             /\ inbound' = inbound
             /\ events' = events]_vars

\* C4: a session whose stream connection has closed is eventually removed
\* from the registry, and every POST to its id after the removal fails with
\* a 4xx session-not-found failure.
C4_ClosedSessionRemoved ==
    /\ \A k \in Streams :
          (phase[k] = "disconnected") ~> (phase[k] = "closed" /\ ~Reachable(k))
    /\ [][(IsPost /\ lastPost'.target = "closed")
            => lastPost'.status \in {400, 404}]_vars

\* The ids of the requests of session k: answered, running, queued.
Ascending(seq) == \A a, b \in DOMAIN seq : a < b => seq[a] < seq[b]
MessageIds(k) ==
    [n \in 1..(Len(events[k]) - 1) |-> events[k][n + 1].id]
QueuedIds(k) == [n \in DOMAIN inbound[k] |-> inbound[k][n].id]

\* C5: within one session requests are dispatched one at a time in arrival
\* order (a request's id is its arrival number): at most one handler runs,
\* replies appear on the stream in arrival order, and every request still
\* running or queued arrived after all those already answered or running.
C5_SequentialDispatch ==
    \A k \in Streams :
        /\ Cardinality(inflight[k]) <= 1
        /\ Ascending(MessageIds(k))
        /\ Ascending(QueuedIds(k))
        /\ phase[k] \in {"open", "disconnected"} =>
              /\ \A m \in inflight[k] : \A n \in DOMAIN MessageIds(k) :
                    MessageIds(k)[n] < m.id
              /\ \A m \in inflight[k] : \A n \in DOMAIN QueuedIds(k) :
                    m.id < QueuedIds(k)[n]

C5_Witness ==
    \E k \in Streams :
        /\ Len(events[k]) >= 3
        /\ IsMessage(events[k][2]) /\ IsMessage(events[k][3])

\* C6: a failed capability invocation never ends the session's dispatch loop
\* or closes its stream: the step that finishes a handler on an open session
\* leaves the session open and writes exactly one reply, so a later request
\* is still dispatched and answered.
C6_FailureKeepsLoop ==
    [][\A k \in Streams :
          (phase[k] = "open" /\ inflight[k] # {} /\ inflight'[k] = {})
            => /\ phase'[k] = "open"
               /\ Len(events'[k]) = Len(events[k]) + 1
               /\ IsMessage(events'[k][Len(events'[k])])]_vars

C6_Witness ==
    \E k \in Streams :
        /\ phase[k] = "open"
        /\ Len(events[k]) >= 3
        /\ events[k][2].kind = "error"
        /\ events[k][3].kind = "response"

\* C7: on every stream the first event carries the id of the session created
\* for that stream, and nothing is written before it.
C7_FirstEventIsSessionId ==
    \A k \in Streams :
        /\ phase[k] \in {"open", "disconnected"} => events[k] # <<>>
        /\ events[k] # <<>> =>
              /\ events[k][1] = EndpointEvent(k)
              /\ \A n \in 2..Len(events[k]) : IsMessage(events[k][n])

C7_Witness ==
    \E k \in Streams :
        /\ Len(events[k]) >= 2
        /\ events[k][1].type = "endpoint" /\ events[k][1].body = k
        /\ IsMessage(events[k][2])

\* C8: every answer to a POST is a transport-level acknowledgment: status 202
\* on acceptance or a 4xx status on rejection, never another status class.
C8_AckOrClientError ==
    postSeq > 0 => (lastPost.status = 202 \/ lastPost.status \in 400..499)

\* C9: the POST handler never waits for the dispatch loop: the step that
\* accepts a POST only appends the request to the session's inbound queue;
\* no handler has started and no event has been written when the 202 is
\* returned.
C9_AckAfterEnqueueOnly ==
    [][(IsPost /\ lastPost'.status = 202)
          => /\ lastPost'.sid \in Streams
             /\ Len(inbound'[lastPost'.sid]) = Len(inbound[lastPost'.sid]) + 1
             /\ inbound'[lastPost'.sid][Len(inbound'[lastPost'.sid])].id = lastPost'.id
             /\ inflight' = inflight
             /\ events' = events]_vars

C9_Witness ==
    /\ lastPost.status = 202
    /\ lastPost.sid \in Streams
    /\ phase[lastPost.sid] = "open"
    /\ \E n \in DOMAIN inbound[lastPost.sid] :
          inbound[lastPost.sid][n].id = lastPost.id
    /\ ~Answered(lastPost.sid, lastPost.id)

\* The registered capability table, by name.
RegisteredNames == {coingecko_tool_definition.name}

IsListing(e) == e.kind = "response" /\ "tools" \in DOMAIN e.body

\* C10: a list-capabilities request is answered with exactly the registered
\* capabilities, each entry with its name and inputSchema and without the
\* invocation function, whatever was handled before it on the session.
C10_ListingIsRegisteredTable ==
    \A k \in Streams : \A n \in DOMAIN events[k] :
        IsListing(events[k][n]) =>
            LET tools == events[k][n].body.tools
            IN  /\ Len(tools) = Cardinality(RegisteredNames)
                /\ \A t \in DOMAIN tools :
                      /\ {"name", "inputSchema"} \subseteq DOMAIN tools[t]
                      /\ DOMAIN tools[t] \cap {"invoke", "function", "handler"} = {}
                      /\ tools[t].name \in RegisteredNames
                      /\ tools[t].inputSchema = CoinGeckoPriceInput

C10_Witness ==
    \E k \in Streams :
        /\ Len(events[k]) >= 3
        /\ ~IsListing(events[k][2])
        /\ IsListing(events[k][3])

\* The event a step has just written to stream k.
LastEvent(k) == events'[k][Len(events'[k])]

\* The step finishes the handler of request m on the open session k.
Finishes(k, m) ==
    /\ phase[k] = "open"
    /\ m \in inflight[k]
    /\ m \notin inflight'[k]

\* What only get_coingecko_price_logic produces: a result with content, or
\* one of the messages of its exceptions.
LookupMessages ==
    {get_coingecko_price_logic(StrV(t), up).value :
        t \in {"", "bitcoin"}, up \in Upstreams \ {"price"}}
FromLookup(e) ==
    \/ e.kind = "response" /\ "content" \in DOMAIN e.body
    \/ e.kind = "error" /\ e.body \in LookupMessages

\* C11: a tools/call request naming a tool that is not registered is answered
\* on its session's stream by one ErrorNotification with the
\* CapabilityNotFound code and the request's own id, and nothing the price
\* lookup produces is in the answer.
C11_UnknownCapability ==
    [][\A k \in Streams : \A m \in inflight[k] :
          (Finishes(k, m) /\ m.req.method = "tools/call"
              /\ m.req.name \notin RegisteredNames)
            => /\ Len(events'[k]) = Len(events[k]) + 1
               /\ LastEvent(k).kind = "error"
               /\ LastEvent(k).code = "CapabilityNotFound"
               /\ LastEvent(k).id = m.id
               /\ ~FromLookup(LastEvent(k))]_vars

C11_Witness ==
    \E k \in Streams : \E n \in DOMAIN events[k] :
        /\ events[k][n].kind = "error"
        /\ events[k][n].code = "CapabilityNotFound"
        /\ inflight[k] = {}

\* The arguments conform to the tool's input schema: every required field is
\* there and is a string.
ConformsToSchema(arguments) ==
    /\ CoinGeckoPriceInput.required \subseteq DOMAIN arguments
    /\ \A f \in CoinGeckoPriceInput.properties \cap DOMAIN arguments :
          arguments[f].type = "str"

\* C12: a tools/call request for the registered tool whose arguments do not
\* conform to the input schema (token_id missing or not a string) is
\* answered by one ErrorNotification with the InvalidParams code and the
\* request's id, and an answer that comes from the price lookup is written
\* only for arguments that conform.
C12_InvalidParams ==
    [][\A k \in Streams : \A m \in inflight[k] :
          (Finishes(k, m) /\ m.req.method = "tools/call"
              /\ m.req.name \in RegisteredNames)
            => /\ Len(events'[k]) = Len(events[k]) + 1
               /\ LastEvent(k).id = m.id
               /\ ~ConformsToSchema(m.req.arguments)
                    => /\ LastEvent(k).kind = "error"
                       /\ LastEvent(k).code = "InvalidParams"
               /\ FromLookup(LastEvent(k))
                    => ConformsToSchema(m.req.arguments)]_vars

C12_Witness ==
    \E k \in Streams :
        /\ Len(events[k]) >= 3
        /\ events[k][2].code = "InvalidParams"
        /\ FromLookup(events[k][3])

\* The outcomes in which the outbound request itself failed: the API was
\* not reached, or it answered with an error status.
NetworkFailures == {"neterror", "httperror"}
NetworkFailureMessages ==
    {get_coingecko_price_logic(StrV("bitcoin"), up).value : up \in NetworkFailures}

\* C13: every failure of the price lookup is reported with one coarse code
\* and its message: UpstreamUnavailable when the outbound request failed,
\* InternalError for every other failure, a successful upstream reply
\* without usable price data included.
C13_FailureCodes ==
    \A k \in Streams : \A n \in DOMAIN events[k] :
        (events[k][n].kind = "error" /\ FromLookup(events[k][n]))
          => events[k][n].code =
                IF events[k][n].body \in NetworkFailureMessages
                THEN "UpstreamUnavailable"
                ELSE "InternalError"

\* The registry as the POST handler sees it: the slot, and the sessions each
\* transport has registered.
Registry == [slot |-> active_transport, sessions |-> writers]

\* The registry after session k's removal, as Cleanup leaves it.
Removed(reg, k) ==
    [slot |-> SlotAfterCleanup(reg.slot, TransportOf(k)),
     sessions |-> [reg.sessions EXCEPT ![TransportOf(k)] = @ \ {k}]]

\* The step ends stream k, on whichever path (cancellation, exception, the
\* run loop's return).
Removes(k) ==
    /\ phase[k] \in {"created", "open", "disconnected"}
    /\ phase'[k] \in {"failed", "closed"}

\* C14: removing a session is idempotent and touches no other session: the
\* step that removes session k, on whichever path, takes k out of the
\* registry, and removing k again from the registry it leaves would change
\* nothing; the step leaves the slot alone unless it holds k's transport,
\* and leaves every other session's registration, phase, queue and stream
\* as they were.
C14_RemoveIdempotent ==
    [][phase' # phase => \A k \in Streams : Removes(k) =>
          /\ Registry' = Removed(Registry, k)
          /\ Removed(Registry', k) = Registry'
          /\ k \notin writers'[TransportOf(k)]
          /\ active_transport # TransportOf(k)
                => active_transport' = active_transport
          /\ \A j \in Streams \ {k} :
                /\ (j \in writers'[TransportOf(j)]) = (j \in writers[TransportOf(j)])
                /\ phase'[j] = phase[j]
                /\ inbound'[j] = inbound[j]
                /\ events'[j] = events[j]]_vars

C14_Witness ==
    \E k, j \in Streams :
        /\ phase[k] = "closed"
        /\ Removed(Registry, k) = Registry
        /\ phase[j] = "open"
        /\ j \in writers[TransportOf(j)]
        /\ inbound[j] # <<>>

\* C15: when a session is closed while a handler of one of its requests is
\* running, the handler may finish but its result is discarded: the step
\* that finishes a handler of a closed session writes nothing to any stream
\* and changes nothing else, and the step that closes a session with a
\* running handler writes nothing to the other streams.
C15_ResultDiscardedAfterClose ==
    [][\A k \in Streams :
          /\ (phase[k] = "closed" /\ inflight'[k] # inflight[k])
                => /\ inflight'[k] \subseteq inflight[k]
                   /\ events' = events
                   /\ UNCHANGED <<active_transport, phase, writers, inbound,
                                  postSeq, lastPost>>
          /\ (Removes(k) /\ inflight[k] # {})
                => /\ events'[k] = <<>>
                   /\ inflight'[k] = inflight[k]
                   /\ \A j \in Streams \ {k} : events'[j] = events[j]]_vars

C15_Witness ==
    \E k, j \in Streams :
        /\ phase[k] = "closed"
        /\ inflight[k] # {}
        /\ events[k] = <<>>
        /\ phase[j] = "open"
        /\ Len(events[j]) = 1

\* The capacity the inbound queue of a session is claimed to have. Nothing
\* in the sources sets one: the transport is made from the endpoint path
\* alone.
QueueCapacity == 1

CleanedUp(k) == phase[k] \in {"failed", "closed"}

\* C17: the slot is empty or holds the transport of the most recent
\* GET /sse/, and it holds a transport only while that most recent stream's
\* finally block has not run.
C17_SlotIsMostRecent ==
    /\ nextStream = 0 => active_transport = NoTransport
    /\ nextStream > 0 =>
          /\ active_transport \in {NoTransport, TransportOf(nextStream)}
          /\ active_transport # NoTransport => ~CleanedUp(nextStream)

C17_Witness ==
    /\ nextStream = MaxStreams
    /\ CleanedUp(nextStream)
    /\ active_transport = NoTransport
    /\ \E k \in Streams : k < nextStream /\ phase[k] = "open"

\* C18: a stream's cleanup empties the slot only if the slot holds that
\* stream's own transport; the cleanup of an older stream leaves the slot
\* with the newer stream's transport, and the POSTs after it are still
\* delegated to that transport.
C18_CleanupKeepsNewerSlot ==
    [][/\ \A k \in Streams : Removes(k) =>
             /\ active_transport' # active_transport
                   => /\ active_transport = TransportOf(k)
                      /\ active_transport' = NoTransport
             /\ active_transport = TransportOf(k)
                   => active_transport' = NoTransport
       /\ \A k, j \in Streams :
             (IsPost /\ k < j /\ CleanedUp(k) /\ active_transport = TransportOf(j))
               => /\ lastPost'.delegated
                  /\ active_transport' = TransportOf(j)]_vars

C18_Witness ==
    \E k, j \in Streams :
        /\ k < j
        /\ phase[k] = "closed"
        /\ phase[j] = "open"
        /\ active_transport = TransportOf(j)
        /\ lastPost.delegated /\ lastPost.sid = j /\ lastPost.status = 202
        /\ lastPost.target = "open"
        /\ \E n \in DOMAIN inbound[j] : inbound[j][n].id = lastPost.id

\* C19: a POST is delegated to a transport exactly when the slot is not
\* empty at that moment; with an empty slot it is answered 400 and no
\* transport, queue or stream is touched. So once the most recent stream
\* has been cleaned up every POST is answered 400, also one addressed to an
\* older stream that is still open.
C19_DelegatedIffSlotSet ==
    [][IsPost =>
          /\ lastPost'.delegated <=> active_transport # NoTransport
          /\ active_transport = NoTransport
                => /\ lastPost'.status = 400
                   /\ UNCHANGED <<active_transport, writers, inbound, inflight,
                                  events>>
          /\ (nextStream > 0 /\ CleanedUp(nextStream))
                => /\ lastPost'.status = 400
                   /\ ~lastPost'.delegated]_vars

C19_Witness ==
    /\ nextStream > 0
    /\ CleanedUp(nextStream)
    /\ lastPost.status = 400
    /\ ~lastPost.delegated
    /\ lastPost.wellFormed
    /\ lastPost.target = "open"
    /\ lastPost.sid \in Streams
    /\ phase[lastPost.sid] = "open"
    /\ lastPost.sid \in writers[TransportOf(lastPost.sid)]

====
